---- MODULE Spec2Model ----
(***************************************************************************)
(* Model of src/services/social/index.ts:                                  *)
(*   - the SocialService facade (constructor, initialize, send,            *)
(*     sendMessage) over its two optional platform clients;                *)
(*   - the express application built by createServer.                      *)
(* Asynchronous functions are cut at their await points: one action runs   *)
(* the synchronous code up to the next await, the collaborator's promise   *)
(* settles in an action of its own, and a resume action runs the code after*)
(* the await.                                                              *)
(***************************************************************************)
EXTENDS Integers, Sequences, FiniteSets, TLC

\* ------------------------------------------------------------------ bounds
\* number of facade calls (initialize / send / sendMessage) in one behaviour
MaxCalls == 2
\* number of HTTP requests in one behaviour
MaxReqs == 2

CallIds == 1..MaxCalls
ReqIds == 1..MaxReqs

\* An optional value (a TypeScript `x?: T`) is a sequence of length <= 1.
Undefined == <<>>
Some(v) == <<v>>

\* ------------------------------------------------------------------ inputs
\* config.helius: absent, present without apiKey, with an empty apiKey, with a key
HeliusInputs ==
  { Undefined,
    Some([apiKey |-> Undefined]),
    Some([apiKey |-> Some("")]),
    Some([apiKey |-> Some("helius-key")]) }

\* the SocialConfig values the constructor is given; only the presence of the
\* twitter, discord and redis sections is read by the branches of the code
Configs ==
  [helius : HeliusInputs, twitter : BOOLEAN, discord : BOOLEAN, redis : BOOLEAN]

\* platform names, as sequences of characters
Twitter == <<"t", "w", "i", "t", "t", "e", "r">>
Discord == <<"d", "i", "s", "c", "o", "r", "d">>
PlatformInputs ==
  { Twitter,
    <<"T", "W", "I", "T", "T", "E", "R">>,
    <<"T", "w", "i", "t", "t", "e", "R">>,
    Discord,
    <<"D", "i", "s", "c", "o", "r", "d">>,
    <<"m", "a", "s", "t", "o", "d", "o", "n">>,
    <<"t", "w", "i", "t", "t", "e", "r", "s">>,
    <<>> }

MessageIds == {"m1"}

\* errors a collaborator's promise may reject with
NoError == [kind |-> "none", arg |-> <<>>]
TwitterErrors == { [kind |-> "twitterError1", arg |-> <<>>],
                   [kind |-> "twitterError2", arg |-> <<>>] }
DiscordErrors == { [kind |-> "discordError1", arg |-> <<>>] }

\* ------------------------------------------------------------- JS helpers
\* String.prototype.toLowerCase on the characters of the model's alphabet
LowerChar(ch) ==
  CASE ch = "T" -> "t"
    [] ch = "W" -> "w"
    [] ch = "I" -> "i"
    [] ch = "E" -> "e"
    [] ch = "R" -> "r"
    [] ch = "D" -> "d"
    [] ch = "S" -> "s"
    [] ch = "C" -> "c"
    [] ch = "O" -> "o"
    [] OTHER -> ch

toLowerCase(str) == [i \in 1..Len(str) |-> LowerChar(str[i])]

\* JS truthiness of an optional string: undefined and '' are falsy
Truthy(opt) == opt # Undefined /\ opt[1] # ""

\* config.helius?.apiKey
HeliusApiKey(config) ==
  IF config.helius = Undefined THEN Undefined ELSE config.helius[1].apiKey

VARIABLES
  service,   \* the SocialService construction: state, the two client handles,
             \* the collaborators constructed in order, the error thrown
  calls,     \* CallIds -> the facade call with that id
  app,       \* the express application: its layers in registration order
  reqs       \* ReqIds -> the HTTP request with that id

vars == <<service, calls, app, reqs>>

\* ------------------------------------------------------------ constructor
\* collaborators constructed unconditionally once the key check has passed,
\* in evaluation order
BaseCollaborators ==
  << "RedisCacheService", "Connection", "PublicKey", "WalletProvider",
     "TokenProvider", "JupiterPriceV2Service", "MarketDataProcessor" >>

\* ConstructorResult with a guard that only tests the presence of the helius
\* section (`!config.helius` for `!config.helius?.apiKey`)
ConstructorResult_SectionOnly(config) ==
  IF config.helius = Undefined
  THEN [state |-> "threw",
        error |-> "Helius API key is required",
        twitterService |-> FALSE,
        discordService |-> FALSE,
        built |-> <<>>,
        config |-> config]
  ELSE [state |-> "constructed",
        error |-> "",
        twitterService |-> config.twitter,
        discordService |-> config.discord,
        built |-> << "RedisCacheService", "Connection", "PublicKey", "WalletProvider",
                     "TokenProvider", "JupiterPriceV2Service", "MarketDataProcessor" >>
                    \o (IF config.twitter THEN <<"TwitterService">> ELSE <<>>)
                    \o (IF config.discord THEN <<"DiscordService">> ELSE <<>>),
        config |-> config]

ConstructorResult(config) ==
  IF ~Truthy(HeliusApiKey(config))
  THEN [state |-> "threw",
        error |-> "Helius API key is required",
        twitterService |-> FALSE,
        discordService |-> FALSE,
        built |-> <<>>,
        config |-> config]
  ELSE [state |-> "constructed",
        error |-> "",
        twitterService |-> config.twitter,
        discordService |-> config.discord,
        built |-> BaseCollaborators
                    \o (IF config.twitter THEN <<"TwitterService">> ELSE <<>>)
                    \o (IF config.discord THEN <<"DiscordService">> ELSE <<>>),
        config |-> config]

NotConstructed ==
  [state |-> "none", error |-> "", twitterService |-> FALSE,
   discordService |-> FALSE, built |-> <<>>,
   config |-> [helius |-> Undefined, twitter |-> FALSE, discord |-> FALSE,
               redis |-> FALSE]]

\* new SocialService(config)
Constructor(config) ==
  /\ service.state = "none"
  /\ service' = ConstructorResult(config)
  /\ UNCHANGED <<calls, app, reqs>>

\* ---------------------------------------------------------------- promises
NoPromise == [state |-> "none", reason |-> NoError]
Pending == [state |-> "pending", reason |-> NoError]
Fulfilled == [state |-> "fulfilled", reason |-> NoError]
Rejected(e) == [state |-> "rejected", reason |-> e]

\* An element of a Promise<void>[] array: a promise created already settled
\* (Promise.resolve(), Promise.reject(error)), or the promise returned by the
\* twitter client ("tw") or by the discord client ("dc").
Value(p) == [src |-> "value", p |-> p]
Ref(src) == [src |-> src, p |-> NoPromise]

Deref(call, entry) ==
  IF entry.src = "value" THEN entry.p
  ELSE IF entry.src = "tw" THEN call.tw
  ELSE call.dc

\* PromiseAll settling as soon as one promise has (Promise.race for Promise.all)
PromiseAll_Race(ps) ==
  IF \E i \in 1..Len(ps) : ps[i].state = "rejected"
  THEN LET i == CHOOSE j \in 1..Len(ps) :
                  /\ ps[j].state = "rejected"
                  /\ \A k \in 1..(j - 1) : ps[k].state # "rejected"
       IN [state |-> "rejected", reason |-> ps[i].reason]
  ELSE IF Len(ps) = 0 \/ \E i \in 1..Len(ps) : ps[i].state = "fulfilled"
  THEN [state |-> "fulfilled", reason |-> NoError]
  ELSE [state |-> "pending", reason |-> NoError]

\* Promise.all over the current states of the promises of an array: rejected
\* with the reason of the first promise to reject, fulfilled when all are
\* fulfilled, pending otherwise.  In both arrays the code builds, at most one
\* element is unsettled when Promise.all is called and the elements settled by
\* then are reacted to in index order, so the first to reject is the rejected
\* element of lowest index.
PromiseAll(ps) ==
  IF \E i \in 1..Len(ps) : ps[i].state = "rejected"
  THEN LET i == CHOOSE j \in 1..Len(ps) :
                  /\ ps[j].state = "rejected"
                  /\ \A k \in 1..(j - 1) : ps[k].state # "rejected"
       IN Rejected(ps[i].reason)
  ELSE IF \A i \in 1..Len(ps) : ps[i].state = "fulfilled"
  THEN Fulfilled
  ELSE Pending

AllOf(call) == PromiseAll([i \in 1..Len(call.promises) |-> Deref(call, call.promises[i])])

\* ------------------------------------------------------------ facade calls
\* a call that has not been made yet
NoCall ==
  [op |-> "none", pc |-> "idle", platform |-> <<>>, messageId |-> "",
   content |-> "", tw |-> NoPromise, dc |-> NoPromise, promises |-> <<>>,
   invoked |-> <<>>, logs |-> <<>>, result |-> "none", error |-> NoError]

Contents == {"gm"}

\* a method invoked on a platform client
Invocation(svc, fn, target, content) ==
  [service |-> svc, fn |-> fn, target |-> target, content |-> content]

\* an elizaLogger line
Log(level, msg, platform, error) ==
  [level |-> level, msg |-> msg, platform |-> platform, error |-> error]

UnsupportedPlatform(platform) == [kind |-> "Unsupported platform: ", arg |-> platform]

\* call ids are used in order
CanStart(c) ==
  /\ service.state = "constructed"
  /\ calls[c].op = "none"
  /\ c > 1 => calls[c - 1].op # "none"

\* --- initialize(): lines 139-158
\* the synchronous part, up to `await Promise.all(initPromises)`
InitializeBegin(svc, call) ==
  [call EXCEPT
     !.op = "initialize",
     !.pc = "awaitAll",
     !.result = "pending",
     !.tw = IF svc.twitterService THEN Pending ELSE @,
     !.invoked = IF svc.twitterService
                 THEN <<Invocation("twitter", "initialize", "", "")>>
                 ELSE <<>>,
     !.promises = (IF svc.twitterService THEN <<Ref("tw")>> ELSE <<>>)
                    \o (IF svc.discordService THEN <<Value(Fulfilled)>> ELSE <<>>)]

\* InitializeEnd whose catch block logs and does not rethrow
InitializeEnd_Swallow(call) ==
  LET all == AllOf(call) IN
  IF all.state = "fulfilled"
  THEN [call EXCEPT
          !.pc = "done",
          !.result = "resolved",
          !.logs = Append(@, Log("success", "Social services initialized successfully",
                                 <<>>, NoError))]
  ELSE [call EXCEPT
          !.pc = "done",
          !.result = "resolved",
          !.logs = Append(@, Log("error", "Failed to initialize social services:",
                                 <<>>, all.reason))]

\* after the await: the success log, or the catch block
InitializeEnd(call) ==
  LET all == AllOf(call) IN
  IF all.state = "fulfilled"
  THEN [call EXCEPT
          !.pc = "done",
          !.result = "resolved",
          !.logs = Append(@, Log("success", "Social services initialized successfully",
                                 <<>>, NoError))]
  ELSE [call EXCEPT
          !.pc = "done",
          !.result = "rejected",
          !.error = all.reason,
          !.logs = Append(@, Log("error", "Failed to initialize social services:",
                                 <<>>, all.reason))]

Initialize(c) ==
  /\ CanStart(c)
  /\ calls' = [calls EXCEPT ![c] = InitializeBegin(service, @)]
  /\ UNCHANGED <<service, app, reqs>>

InitializeResume(c) ==
  /\ calls[c].op = "initialize"
  /\ calls[c].pc = "awaitAll"
  /\ AllOf(calls[c]).state # "pending"
  /\ calls' = [calls EXCEPT ![c] = InitializeEnd(@)]
  /\ UNCHANGED <<service, app, reqs>>

\* --- send(content): lines 168-188
\* SendDiscordPart without the `if (this.discordService)` guard
SendDiscordPart_Unguarded(svc, call, content) ==
  [call EXCEPT
     !.pc = "awaitAll",
     !.dc = Pending,
     !.invoked = Append(@, Invocation("discord", "sendMessage", "System", content)),
     !.promises = Append(@, Ref("dc"))]

\* lines 181-187: the discord branch, up to `await Promise.all(promises)`
SendDiscordPart(svc, call, content) ==
  IF svc.discordService
  THEN [call EXCEPT
          !.pc = "awaitAll",
          !.dc = Pending,
          !.invoked = Append(@, Invocation("discord", "sendMessage", "System", content)),
          !.promises = Append(@, Ref("dc"))]
  ELSE [call EXCEPT !.pc = "awaitAll"]

\* SendBegin as a plain fan-out: both sends dispatched before any await
SendBegin_FanOut(svc, call, content) ==
  LET started == [call EXCEPT !.op = "send", !.result = "pending",
                              !.content = content]
  IN IF svc.twitterService
     THEN SendDiscordPart(svc,
            [started EXCEPT
               !.tw = Pending,
               !.invoked = <<Invocation("twitter", "tweet", "undefined", content)>>,
               !.promises = <<Ref("tw")>>],
            content)
     ELSE SendDiscordPart(svc, started, content)

\* lines 169-173: up to `await this.twitterService.tweet(...)` when the
\* twitter client exists, else straight to the discord branch
SendBegin(svc, call, content) ==
  LET started == [call EXCEPT !.op = "send", !.result = "pending",
                              !.content = content]
  IN IF svc.twitterService
     THEN [started EXCEPT
             !.pc = "awaitTweet",
             !.tw = Pending,
             !.invoked = <<Invocation("twitter", "tweet", "undefined", content)>>]
     ELSE SendDiscordPart(svc, started, content)

\* SendAfterTweet whose catch block rethrows: a failed tweet ends the call
SendAfterTweet_Rethrow(svc, call) ==
  IF call.tw.state = "fulfilled"
  THEN SendDiscordPart(svc, [call EXCEPT !.promises = Append(@, Value(Fulfilled))],
                       call.content)
  ELSE [call EXCEPT
          !.pc = "done",
          !.result = "rejected",
          !.error = call.tw.reason,
          !.logs = Append(@, Log("error", "Failed to send tweet:", <<>>, call.tw.reason))]

\* lines 174-178 after the tweet has settled, then the discord branch
SendAfterTweet(svc, call) ==
  IF call.tw.state = "fulfilled"
  THEN SendDiscordPart(svc, [call EXCEPT !.promises = Append(@, Value(Fulfilled))],
                       call.content)
  ELSE SendDiscordPart(svc,
         [call EXCEPT
            !.logs = Append(@, Log("error", "Failed to send tweet:", <<>>, call.tw.reason)),
            !.promises = Append(@, Value(Rejected(call.tw.reason)))],
         call.content)

\* after `await Promise.all(promises)`: nothing is caught or logged
SendEnd(call) ==
  LET all == AllOf(call) IN
  IF all.state = "fulfilled"
  THEN [call EXCEPT !.pc = "done", !.result = "resolved"]
  ELSE [call EXCEPT !.pc = "done", !.result = "rejected", !.error = all.reason]

Send(c, content) ==
  /\ CanStart(c)
  /\ calls' = [calls EXCEPT ![c] = SendBegin(service, @, content)]
  /\ UNCHANGED <<service, app, reqs>>

SendTweetResume(c) ==
  /\ calls[c].op = "send"
  /\ calls[c].pc = "awaitTweet"
  /\ calls[c].tw.state # "pending"
  /\ calls' = [calls EXCEPT ![c] = SendAfterTweet(service, @)]
  /\ UNCHANGED <<service, app, reqs>>

SendResume(c) ==
  /\ calls[c].op = "send"
  /\ calls[c].pc = "awaitAll"
  /\ AllOf(calls[c]).state # "pending"
  /\ calls' = [calls EXCEPT ![c] = SendEnd(@)]
  /\ UNCHANGED <<service, app, reqs>>

\* --- sendMessage(platform, messageId, content): lines 190-210
\* the catch block: log with the platform as passed, rethrow
SendMessageCatch(call, error) ==
  [call EXCEPT
     !.pc = "done",
     !.result = "rejected",
     !.error = error,
     !.logs = Append(@, Log("error", "Failed to send message to ", call.platform, error))]

\* SendMessageBegin switching on the platform as passed (no toLowerCase)
SendMessageBegin_CaseSensitive(svc, call, platform, messageId, content) ==
  LET started == [call EXCEPT !.op = "sendMessage", !.result = "pending",
                              !.platform = platform, !.messageId = messageId,
                              !.content = content]
      returned == [started EXCEPT !.pc = "done", !.result = "resolved"]
  IN CASE platform = Twitter ->
            IF svc.twitterService
            THEN [started EXCEPT
                    !.pc = "awaitTweet",
                    !.tw = Pending,
                    !.invoked = <<Invocation("twitter", "tweet", messageId, content)>>]
            ELSE returned
       [] platform = Discord ->
            IF svc.discordService
            THEN [started EXCEPT
                    !.pc = "awaitDiscord",
                    !.dc = Pending,
                    !.invoked = <<Invocation("discord", "sendMessage", messageId, content)>>]
            ELSE returned
       [] OTHER -> SendMessageCatch(started, UnsupportedPlatform(platform))

\* SendMessageBegin throwing when the selected client is missing
SendMessageBegin_ThrowsWhenMissing(svc, call, platform, messageId, content) ==
  LET started == [call EXCEPT !.op = "sendMessage", !.result = "pending",
                              !.platform = platform, !.messageId = messageId,
                              !.content = content]
      notConfigured == [kind |-> "Platform not configured: ", arg |-> platform]
  IN CASE toLowerCase(platform) = Twitter ->
            IF svc.twitterService
            THEN [started EXCEPT
                    !.pc = "awaitTweet",
                    !.tw = Pending,
                    !.invoked = <<Invocation("twitter", "tweet", messageId, content)>>]
            ELSE SendMessageCatch(started, notConfigured)
       [] toLowerCase(platform) = Discord ->
            IF svc.discordService
            THEN [started EXCEPT
                    !.pc = "awaitDiscord",
                    !.dc = Pending,
                    !.invoked = <<Invocation("discord", "sendMessage", messageId, content)>>]
            ELSE SendMessageCatch(started, notConfigured)
       [] OTHER -> SendMessageCatch(started, UnsupportedPlatform(platform))

\* the switch, up to the await of the selected client's send
SendMessageBegin(svc, call, platform, messageId, content) ==
  LET started == [call EXCEPT !.op = "sendMessage", !.result = "pending",
                              !.platform = platform, !.messageId = messageId,
                              !.content = content]
      returned == [started EXCEPT !.pc = "done", !.result = "resolved"]
  IN CASE toLowerCase(platform) = Twitter ->
            IF svc.twitterService
            THEN [started EXCEPT
                    !.pc = "awaitTweet",
                    !.tw = Pending,
                    !.invoked = <<Invocation("twitter", "tweet", messageId, content)>>]
            ELSE returned
       [] toLowerCase(platform) = Discord ->
            IF svc.discordService
            THEN [started EXCEPT
                    !.pc = "awaitDiscord",
                    !.dc = Pending,
                    !.invoked = <<Invocation("discord", "sendMessage", messageId, content)>>]
            ELSE returned
       [] OTHER -> SendMessageCatch(started, UnsupportedPlatform(platform))

\* after the awaited send has settled: break and return, or the catch block
SendMessageEnd(call) ==
  LET p == IF call.pc = "awaitTweet" THEN call.tw ELSE call.dc IN
  IF p.state = "fulfilled"
  THEN [call EXCEPT !.pc = "done", !.result = "resolved"]
  ELSE SendMessageCatch(call, p.reason)

SendMessage(c, platform, messageId, content) ==
  /\ CanStart(c)
  /\ calls' = [calls EXCEPT ![c] = SendMessageBegin(service, @, platform, messageId, content)]
  /\ UNCHANGED <<service, app, reqs>>

SendMessageResume(c) ==
  /\ calls[c].op = "sendMessage"
  /\ \/ calls[c].pc = "awaitTweet" /\ calls[c].tw.state # "pending"
     \/ calls[c].pc = "awaitDiscord" /\ calls[c].dc.state # "pending"
  /\ calls' = [calls EXCEPT ![c] = SendMessageEnd(@)]
  /\ UNCHANGED <<service, app, reqs>>

\* --- the platform clients (collaborators): a returned promise settles
\* TwitterService.initialize / TwitterService.tweet
TwitterSettles(c, outcome) ==
  /\ calls[c].tw.state = "pending"
  /\ calls' = [calls EXCEPT ![c].tw = outcome]
  /\ UNCHANGED <<service, app, reqs>>

\* DiscordService.sendMessage
DiscordSettles(c, outcome) ==
  /\ calls[c].dc.state = "pending"
  /\ calls' = [calls EXCEPT ![c].dc = outcome]
  /\ UNCHANGED <<service, app, reqs>>

TwitterOutcomes == {Fulfilled} \cup {Rejected(e) : e \in TwitterErrors}
DiscordOutcomes == {Fulfilled} \cup {Rejected(e) : e \in DiscordErrors}

\* ------------------------------------------------------------ HTTP server
Layer(kind, name) == [kind |-> kind, name |-> name]

HealthRoute == "GET /health"
DelegatingRoutes ==
  { "POST /agents", "POST /tasks", "PATCH /tasks/:taskId/status",
    "GET /agents/:agentId/metrics" }
Routes == {HealthRoute} \cup DelegatingRoutes

\* createServer(): the layers in the order of the app.use / app.<verb> calls.
\* A middleware of four parameters (err, req, res, next) is an error handler.
Stack ==
  << Layer("middleware", "helmet"),
     Layer("middleware", "cors"),
     Layer("middleware", "json"),
     Layer("error", "errorHandler"),
     Layer("route", "GET /health"),
     Layer("route", "POST /agents"),
     Layer("route", "POST /tasks"),
     Layer("route", "PATCH /tasks/:taskId/status"),
     Layer("route", "GET /agents/:agentId/metrics") >>

\* req.body as the request arrives: a JSON document, a malformed JSON text,
\* or no body at all (req.body is then left undefined by the parser)
Bodies == {"json", "malformed", "undefined"}

\* the value of a route parameter (:taskId, :agentId) in the request path:
\* well-formed, or with a percent-encoding that decodeURIComponent rejects
Params == {"ok", "malformed"}

\* the routes whose path has a parameter (lines 259, 271)
HasParam(route) ==
  route \in {"PATCH /tasks/:taskId/status", "GET /agents/:agentId/metrics"}

\* errors the coordination service may throw
CoordErrors == { [kind |-> "coordError1", arg |-> <<>>],
                 [kind |-> "coordError2", arg |-> <<>>] }
CoordOutcomes == {Fulfilled} \cup {Rejected(e) : e \in CoordErrors}

\* the error express.json() passes to next() for a malformed body
ParseError == [kind |-> "SyntaxError", arg |-> <<>>]
\* the error express raises when it cannot decode a route parameter
ParamError == [kind |-> "URIError", arg |-> <<>>]
\* destructuring an undefined req.body
BodyTypeError == [kind |-> "TypeError", arg |-> <<>>]

Response(status, kind, key, value) ==
  [status |-> status, kind |-> kind, key |-> key, value |-> value]

NoReq ==
  [route |-> "none", body |-> "", param |-> "", pc |-> "idle", err |-> NoError,
   coord |-> NoPromise, handledBy |-> "", responses |-> <<>>, logs |-> <<>>]

\* the fixed strings of the four catch blocks
LogMessage(route) ==
  CASE route = "POST /agents" -> "Error registering agent:"
    [] route = "POST /tasks" -> "Error creating task:"
    [] route = "PATCH /tasks/:taskId/status" -> "Error updating task status:"
    [] route = "GET /agents/:agentId/metrics" -> "Error fetching agent metrics:"

ErrorMessage(route) ==
  CASE route = "POST /agents" -> "Failed to register agent"
    [] route = "POST /tasks" -> "Failed to create task"
    [] route = "PATCH /tasks/:taskId/status" -> "Failed to update task status"
    [] route = "GET /agents/:agentId/metrics" -> "Failed to fetch agent metrics"

\* FailureResponse passing the thrown error's message to the client
FailureResponse_Leak(route, error) == Response(500, "json", "error", error.kind)

\* the body of a catch block: log the error, answer 500 with the fixed string
FailureResponse(route, error) == Response(500, "json", "error", ErrorMessage(route))

HandlerCatch(req, error) ==
  [req EXCEPT
     !.pc = "done",
     !.logs = Append(@, Log("error", LogMessage(req.route), <<>>, error)),
     !.responses = Append(@, FailureResponse(req.route, error))]

\* the response of a try block whose coordination call has returned;
\* res.json without res.status answers 200
SuccessResponse(route) ==
  CASE route = "POST /agents" -> Response(201, "json", "result", "agent")
    [] route = "POST /tasks" -> Response(201, "json", "result", "task")
    [] route = "PATCH /tasks/:taskId/status" ->
         Response(200, "json", "message", "Task status updated")
    [] route = "GET /agents/:agentId/metrics" -> Response(200, "json", "result", "metrics")

\* the routes whose handler destructures req.body before the call (lines 250, 262)
DestructuresBody(route) == route \in {"POST /tasks", "PATCH /tasks/:taskId/status"}

\* a route handler, up to its await (the health handler has none)
HandlerBegin(req) ==
  LET handled == [req EXCEPT !.handledBy = req.route] IN
  IF req.route = HealthRoute
  THEN [handled EXCEPT !.pc = "done",
                       !.responses = Append(@, Response(200, "json", "status", "ok"))]
  ELSE IF DestructuresBody(req.route) /\ req.body = "undefined"
  THEN HandlerCatch(handled, BodyTypeError)
  ELSE [handled EXCEPT !.pc = "awaitCoord", !.coord = Pending]

\* a route handler after its await
HandlerEnd(req) ==
  IF req.coord.state = "fulfilled"
  THEN [req EXCEPT !.pc = "done", !.responses = Append(@, SuccessResponse(req.route))]
  ELSE HandlerCatch(req, req.coord.reason)

\* lines 229-232
ErrorMiddleware(req, error) ==
  [req EXCEPT
     !.pc = "done",
     !.handledBy = "errorHandler",
     !.logs = Append(@, Log("error", "Error:", <<>>, error)),
     !.responses = Append(@, Response(500, "json", "error", "Internal Server Error"))]

\* express's own last resort when no layer is left: the error's status (400
\* for a body parse error and for a parameter decoding error) with an HTML
\* page, or 404
FinalHandler(req, error) ==
  [req EXCEPT
     !.pc = "done",
     !.handledBy = "finalhandler",
     !.responses = Append(@, IF error = NoError
                             THEN Response(404, "html", "", "Not Found")
                             ELSE Response(400, "html", "", error.kind))]

\* express's dispatch of a request through the layers from index i on: with
\* an error pending only error handlers run, without one they are skipped.
\* The body parser raises an error on a malformed body; matching a route
\* whose parameter cannot be decoded raises an error at that route's layer.
RECURSIVE Dispatch(_, _, _, _)
Dispatch(stack, i, req, error) ==
  IF i > Len(stack) THEN FinalHandler(req, error)
  ELSE LET layer == stack[i] IN
       IF error # NoError
       THEN IF layer.kind = "error"
            THEN ErrorMiddleware(req, error)
            ELSE Dispatch(stack, i + 1, req, error)
       ELSE IF layer.kind = "error" THEN Dispatch(stack, i + 1, req, error)
       ELSE IF layer.name = "json"
       THEN IF req.body = "malformed"
            THEN Dispatch(stack, i + 1, [req EXCEPT !.err = ParseError], ParseError)
            ELSE Dispatch(stack, i + 1, req, error)
       ELSE IF layer.kind = "route" /\ layer.name = req.route
       THEN IF HasParam(req.route) /\ req.param = "malformed"
            THEN Dispatch(stack, i + 1, [req EXCEPT !.err = ParamError], ParamError)
            ELSE HandlerBegin(req)
       ELSE Dispatch(stack, i + 1, req, error)

CreateServer ==
  /\ app = <<>>
  /\ app' = Stack
  /\ UNCHANGED <<service, calls, reqs>>

\* request ids are used in order
Request(r, route, body, param) ==
  /\ app # <<>>
  /\ ~HasParam(route) => param = "ok"
  /\ reqs[r].route = "none"
  /\ r > 1 => reqs[r - 1].route # "none"
  /\ reqs' = [reqs EXCEPT ![r] =
                Dispatch(app, 1, [NoReq EXCEPT !.route = route, !.body = body,
                                             !.param = param], NoError)]
  /\ UNCHANGED <<service, calls, app>>

\* AgentCoordinationService: the awaited call returns or throws
CoordinationSettles(r, outcome) ==
  /\ reqs[r].coord.state = "pending"
  /\ reqs' = [reqs EXCEPT ![r].coord = outcome]
  /\ UNCHANGED <<service, calls, app>>

HandlerResume(r) ==
  /\ reqs[r].pc = "awaitCoord"
  /\ reqs[r].coord.state # "pending"
  /\ reqs' = [reqs EXCEPT ![r] = HandlerEnd(@)]
  /\ UNCHANGED <<service, calls, app>>

\* ---------------------------------------------------------- specifications
Init ==
  /\ service = NotConstructed
  /\ calls = [c \in CallIds |-> NoCall]
  /\ app = <<>>
  /\ reqs = [r \in ReqIds |-> NoReq]

SocialNext ==
  \/ \E config \in Configs : Constructor(config)
  \/ \E c \in CallIds : Initialize(c)
  \/ \E c \in CallIds : InitializeResume(c)
  \/ \E c \in CallIds, content \in Contents : Send(c, content)
  \/ \E c \in CallIds : SendTweetResume(c)
  \/ \E c \in CallIds : SendResume(c)
  \/ \E c \in CallIds, platform \in PlatformInputs, messageId \in MessageIds,
        content \in Contents : SendMessage(c, platform, messageId, content)
  \/ \E c \in CallIds : SendMessageResume(c)
  \/ \E c \in CallIds, outcome \in TwitterOutcomes : TwitterSettles(c, outcome)
  \/ \E c \in CallIds, outcome \in DiscordOutcomes : DiscordSettles(c, outcome)

SocialSpec == Init /\ [][SocialNext]_vars

ServerNext ==
  \/ CreateServer
  \/ \E r \in ReqIds, route \in Routes, body \in Bodies, param \in Params :
        Request(r, route, body, param)
  \/ \E r \in ReqIds, outcome \in CoordOutcomes : CoordinationSettles(r, outcome)
  \/ \E r \in ReqIds : HandlerResume(r)

ServerSpec == Init /\ [][ServerNext]_vars

\* ------------------------------------------------------------- properties
\* The casings of a word, spelled out without toLowerCase.
UpperChar(ch) ==
  CASE ch = "t" -> "T"
    [] ch = "w" -> "W"
    [] ch = "i" -> "I"
    [] ch = "e" -> "E"
    [] ch = "r" -> "R"
    [] ch = "d" -> "D"
    [] ch = "s" -> "S"
    [] ch = "c" -> "C"
    [] ch = "o" -> "O"
    [] OTHER -> ch

IsCasingOf(str, word) ==
  /\ Len(str) = Len(word)
  /\ \A i \in 1..Len(word) : str[i] \in {word[i], UpperChar(word[i])}

KeyMissing(config) ==
  config.helius \in { Undefined, Some([apiKey |-> Undefined]), Some([apiKey |-> Some("")]) }

CallsOf(op) == {c \in CallIds : calls[c].op = op}
BothConfigured == service.twitterService /\ service.discordService
Settled(p) == p.state \in {"fulfilled", "rejected"}

\* C1: a configuration without a helius section, without helius.apiKey or with
\* an empty one makes the constructor throw 'Helius API key is required',
\* whatever the twitter, discord and redis sections are; nothing has been
\* constructed by then, no client handle is set and no method can be called.
C1_MissingKeyFailsConstruction ==
  (service.state # "none" /\ KeyMissing(service.config)) =>
     /\ service.state = "threw"
     /\ service.error = "Helius API key is required"
     /\ service.built = <<>>
     /\ ~service.twitterService /\ ~service.discordService
     /\ \A c \in CallIds : calls[c] = NoCall

C1_Witness ==
  /\ service.state = "threw"
  /\ service.config.helius = Some([apiKey |-> Some("")])
  /\ service.config.twitter /\ service.config.discord /\ service.config.redis

\* C2: with both clients configured, a send call invokes tweet once and then
\* the discord sendMessage once, whatever the tweet's outcome; a failed tweet
\* is logged by send itself; the call resolves only if both sends succeeded
\* and is rejected, never resolved, when one of them failed.
C2_SendAttemptsBothAndFailsIfAnyFails ==
  BothConfigured =>
    \A c \in CallsOf("send") :
      LET call == calls[c]
          tweet == Invocation("twitter", "tweet", "undefined", call.content)
          chat == Invocation("discord", "sendMessage", "System", call.content)
      IN /\ call.pc = "awaitTweet" => call.invoked = <<tweet>>
         /\ call.pc \in {"awaitAll", "done"} => call.invoked = <<tweet, chat>>
         /\ call.pc \in {"awaitAll", "done"} =>
              call.logs = IF call.tw.state = "rejected"
                          THEN <<Log("error", "Failed to send tweet:", <<>>, call.tw.reason)>>
                          ELSE <<>>
         /\ call.result = "resolved" =>
              call.tw.state = "fulfilled" /\ call.dc.state = "fulfilled"
         /\ (call.tw.state = "rejected" \/ call.dc.state = "rejected") =>
              call.result # "resolved"
         /\ call.pc = "done" <=> call.result \in {"resolved", "rejected"}
         /\ (call.pc = "awaitAll" /\ Settled(call.dc)) => call.result = "pending"

C2_Witness ==
  /\ BothConfigured
  /\ \E c \in CallsOf("send") :
       /\ calls[c].tw.state = "fulfilled"
       /\ calls[c].dc.state = "rejected"
       /\ calls[c].result = "rejected"
       /\ Len(calls[c].invoked) = 2

\* C3: sendMessage selects the client by the platform name without regard to
\* case: a casing of 'twitter' invokes at most tweet, once, with the message id
\* as reply target, and nothing on the discord client; a casing of 'discord'
\* the converse; two calls naming casings of the same word, at the same point
\* with the same outcome of the send, have invoked the same and have the same
\* result.  Any other name invokes nothing and is rejected with 'Unsupported
\* platform: ' followed by the name as passed, after logging that error.
C3_CaseInsensitiveDispatch ==
  /\ \A c \in CallsOf("sendMessage") :
       LET call == calls[c]
           unsupported == UnsupportedPlatform(call.platform)
       IN CASE IsCasingOf(call.platform, Twitter) ->
                 /\ call.invoked =
                      IF service.twitterService
                      THEN <<Invocation("twitter", "tweet", call.messageId, call.content)>>
                      ELSE <<>>
                 /\ call.dc = NoPromise
                 /\ call.error.kind # "Unsupported platform: "
            [] IsCasingOf(call.platform, Discord) ->
                 /\ call.invoked =
                      IF service.discordService
                      THEN <<Invocation("discord", "sendMessage", call.messageId, call.content)>>
                      ELSE <<>>
                 /\ call.tw = NoPromise
                 /\ call.error.kind # "Unsupported platform: "
            [] OTHER ->
                 /\ call.invoked = <<>>
                 /\ call.tw = NoPromise /\ call.dc = NoPromise
                 /\ call.pc = "done" /\ call.result = "rejected"
                 /\ call.error = unsupported
                 /\ call.logs = <<Log("error", "Failed to send message to ",
                                     call.platform, unsupported)>>
  /\ \A c1, c2 \in CallsOf("sendMessage") :
       \A word \in {Twitter, Discord} :
         ( /\ IsCasingOf(calls[c1].platform, word)
           /\ IsCasingOf(calls[c2].platform, word)
           /\ calls[c1].messageId = calls[c2].messageId
           /\ calls[c1].content = calls[c2].content
           /\ calls[c1].pc = calls[c2].pc
           /\ calls[c1].tw = calls[c2].tw
           /\ calls[c1].dc = calls[c2].dc )
         => /\ calls[c1].invoked = calls[c2].invoked
            /\ calls[c1].result = calls[c2].result
            /\ calls[c1].error = calls[c2].error

C3_Witness ==
  /\ service.twitterService
  /\ \E c1, c2 \in CallsOf("sendMessage") :
       /\ calls[c1].platform = <<"T", "W", "I", "T", "T", "E", "R">>
       /\ calls[c1].invoked = <<Invocation("twitter", "tweet", "m1", "gm")>>
       /\ calls[c1].result = "resolved"
       /\ calls[c2].platform = <<"m", "a", "s", "t", "o", "d", "o", "n">>
       /\ calls[c2].result = "rejected"

\* C4: on each of the four delegating routes a request whose handler ran gets
\* no response while the coordination call is pending and exactly one once the
\* handler is done: 201 (POST) or 200 (PATCH, GET) when the call returned; when
\* it threw, 500 with {error: <the route's fixed string>}, 'Failed to register
\* agent' for POST /agents, the same whichever error was thrown and never the
\* thrown error's own text.
C4_OneResponsePerRequest ==
  /\ \A r \in ReqIds :
       Len(reqs[r].responses) = IF reqs[r].pc = "done" THEN 1 ELSE 0
  /\ \A r \in ReqIds :
       LET req == reqs[r] IN
       (req.route \in DelegatingRoutes /\ req.handledBy = req.route) =>
          /\ req.pc = "awaitCoord" => req.responses = <<>>
          /\ req.pc = "done" => Len(req.responses) = 1
          /\ (req.pc = "done" /\ req.coord.state = "fulfilled") =>
               req.responses[1].status =
                 IF req.route \in {"POST /agents", "POST /tasks"} THEN 201 ELSE 200
          /\ (req.pc = "done" /\ req.coord.state = "rejected") =>
               /\ req.responses[1].status = 500
               /\ req.responses[1].kind = "json"
               /\ req.responses[1].key = "error"
               /\ req.responses[1].value \notin {e.kind : e \in CoordErrors}
               /\ req.route = "POST /agents" =>
                    req.responses[1].value = "Failed to register agent"
               /\ req.logs = <<Log("error", LogMessage(req.route), <<>>, req.coord.reason)>>
  /\ \A r1, r2 \in ReqIds :
       ( /\ reqs[r1].route \in DelegatingRoutes
         /\ reqs[r1].route = reqs[r2].route
         /\ reqs[r1].pc = "done" /\ reqs[r2].pc = "done"
         /\ reqs[r1].coord.state = "rejected" /\ reqs[r2].coord.state = "rejected" )
       => reqs[r1].responses = reqs[r2].responses

C4_Witness ==
  \E r1, r2 \in ReqIds :
    /\ reqs[r1].route = "POST /agents" /\ reqs[r2].route = "POST /agents"
    /\ reqs[r1].pc = "done" /\ reqs[r2].pc = "done"
    /\ reqs[r1].coord.state = "rejected" /\ reqs[r2].coord.state = "rejected"
    /\ reqs[r1].coord.reason # reqs[r2].coord.reason

\* C5: an initialize call invokes the twitter client's initialize once when
\* that client is configured and nothing otherwise, and never anything on the
\* discord client; it resolves, after the success log, exactly when the
\* twitter initialize (if any) was fulfilled, and is rejected with the twitter
\* initialize's own error, after logging it, when that one was rejected.
C5_InitializeJoinsStartedOperations ==
  \A c \in CallsOf("initialize") :
    LET call == calls[c] IN
    /\ call.invoked = IF service.twitterService
                      THEN <<Invocation("twitter", "initialize", "", "")>>
                      ELSE <<>>
    /\ call.dc = NoPromise
    /\ service.twitterService = (call.tw # NoPromise)
    /\ call.pc = "done" <=> call.result \in {"resolved", "rejected"}
    /\ call.pc = "done" =>
         (call.result = "resolved" <=> call.tw.state # "rejected")
    /\ call.result = "resolved" =>
         /\ call.tw.state \in {"none", "fulfilled"}
         /\ call.error = NoError
         /\ call.logs = <<Log("success", "Social services initialized successfully",
                              <<>>, NoError)>>
    /\ call.result = "rejected" =>
         /\ call.tw.state = "rejected"
         /\ call.error = call.tw.reason
         /\ call.logs = <<Log("error", "Failed to initialize social services:",
                              <<>>, call.tw.reason)>>
    /\ call.result = "pending" => call.logs = <<>>

C5_Witness ==
  /\ BothConfigured
  /\ \E c \in CallsOf("initialize") :
       /\ calls[c].result = "rejected"
       /\ calls[c].error = [kind |-> "twitterError2", arg |-> <<>>]

\* C6: a configuration with the helius key and neither a twitter nor a discord
\* section constructs the service with no client handle; a send call on it
\* invokes nothing, is never rejected and is resolved once done.
C6_NoPlatformSendIsNoOp ==
  ( /\ service.state # "none"
    /\ service.config.helius = Some([apiKey |-> Some("helius-key")])
    /\ ~service.config.twitter /\ ~service.config.discord ) =>
     /\ service.state = "constructed"
     /\ ~service.twitterService /\ ~service.discordService
     /\ "TwitterService" \notin {service.built[i] : i \in 1..Len(service.built)}
     /\ "DiscordService" \notin {service.built[i] : i \in 1..Len(service.built)}
     /\ \A c \in CallsOf("send") :
          /\ calls[c].invoked = <<>>
          /\ calls[c].tw = NoPromise /\ calls[c].dc = NoPromise
          /\ calls[c].logs = <<>>
          /\ calls[c].result \in {"pending", "resolved"}
          /\ calls[c].pc = "done" => calls[c].result = "resolved"

C6_Witness ==
  /\ service.state = "constructed"
  /\ ~service.config.twitter /\ ~service.config.discord
  /\ \E c \in CallsOf("send") : calls[c].result = "resolved"

\* C7: a sendMessage call naming a casing of 'twitter' (of 'discord') while
\* the twitter (the discord) client is not configured is resolved at once,
\* having invoked nothing, logged nothing and raised nothing, whether or not
\* the other client is configured.
C7_UnconfiguredPlatformIsSilentNoOp ==
  \A c \in CallsOf("sendMessage") :
    LET call == calls[c] IN
    ( \/ IsCasingOf(call.platform, Twitter) /\ ~service.twitterService
      \/ IsCasingOf(call.platform, Discord) /\ ~service.discordService ) =>
       /\ call.pc = "done"
       /\ call.result = "resolved"
       /\ call.invoked = <<>>
       /\ call.logs = <<>>
       /\ call.error = NoError
       /\ call.tw = NoPromise /\ call.dc = NoPromise

C7_Witness ==
  /\ service.discordService /\ ~service.twitterService
  /\ \E c \in CallsOf("sendMessage") :
       /\ calls[c].platform = <<"T", "w", "i", "t", "t", "e", "R">>
       /\ calls[c].result = "resolved"

\* C8: every request on which an error was raised outside the route handlers
\* (the JSON parser rejecting the body, a route parameter that cannot be
\* decoded) is answered by the error middleware, once, with 500 and
\* {error: 'Internal Server Error'}; none is answered otherwise.
C8_CatchAllAnswers500 ==
  \A r \in ReqIds :
    LET req == reqs[r] IN
    req.err # NoError =>
      /\ req.pc = "done"
      /\ req.handledBy = "errorHandler"
      /\ req.responses = <<Response(500, "json", "error", "Internal Server Error")>>

\* no step takes a pending promise of a platform client anywhere but to its
\* own outcome, and a settled promise stays as it is
NothingCancelled ==
  \A c \in CallIds :
    /\ calls[c].tw.state = "pending" => calls'[c].tw \in {Pending} \cup TwitterOutcomes
    /\ calls[c].dc.state = "pending" => calls'[c].dc \in {Pending} \cup DiscordOutcomes
    /\ Settled(calls[c].tw) => calls'[c].tw = calls[c].tw
    /\ Settled(calls[c].dc) => calls'[c].dc = calls[c].dc

\* a resolved call has no pending promise, a rejected call has a rejected one
JoinWaits ==
  \A c \in CallsOf("initialize") \cup CallsOf("send") :
    LET call == calls[c] IN
    /\ call.result = "resolved" =>
         call.tw.state \in {"none", "fulfilled"} /\ call.dc.state \in {"none", "fulfilled"}
    /\ call.result = "rejected" =>
         call.tw.state = "rejected" \/ call.dc.state = "rejected"

\* C9: an initialize or send call is never resolved while a promise it got
\* from a platform client is pending, and is settled only when all of them are
\* fulfilled or one is rejected; no step, the rejection of the call included,
\* cancels a pending promise: it stays pending until its own fulfilment or
\* rejection.
C9_JoinWaitsAndNothingIsCancelled == []JoinWaits /\ [][NothingCancelled]_vars

C9_Witness ==
  \E c \in CallsOf("send") :
    /\ calls[c].result = "rejected"
    /\ calls[c].tw.state = "rejected"
    /\ calls[c].dc.state = "pending"

\* C10: in a send call with both clients configured the discord send is
\* dispatched only once the tweet has settled, so the two are never pending
\* together; when both were rejected the call is rejected with the tweet's
\* error.
C10_ChatSendFollowsTweet ==
  BothConfigured =>
    \A c \in CallsOf("send") :
      LET call == calls[c] IN
      /\ ~(call.tw.state = "pending" /\ call.dc.state = "pending")
      /\ call.dc # NoPromise => Settled(call.tw)
      /\ (call.tw.state = "rejected" /\ call.result = "rejected") =>
           call.error = call.tw.reason
      /\ (call.tw.state = "fulfilled" /\ call.result = "rejected") =>
           call.error = call.dc.reason

C10_Witness ==
  /\ BothConfigured
  /\ \E c \in CallsOf("send") :
       /\ calls[c].tw.state = "rejected"
       /\ calls[c].dc.state = "rejected"
       /\ calls[c].result = "rejected"
       /\ calls[c].error = calls[c].tw.reason

====
